---------------------------- MODULE Spec2Model ----------------------------
(***************************************************************************)
(* A model of the drumgen pattern generator: the PatternGenerator engine   *)
(* of src/drumgen/grids.py (clock divider, drum-map interpolator, grid and *)
(* Euclidean evaluation) and the TulipGrids host driver of                 *)
(* src/drumgen/tulip_grids.py that evaluates it from a sequencer callback. *)
(* The data tables are those of src/scripts/tulip/tworld_grids.py.         *)
(*                                                                         *)
(* Conventions: Python lists and arrays are 0-based, TLA+ tuples 1-based,  *)
(* so the source's a[i] is a[i + 1] here.  A 32-bit mask is the pair       *)
(* << high 16 bits, low 16 bits >>, because 32-bit masks with bit 31 set   *)
(* do not fit the model checker's integers.                                *)
(***************************************************************************)
EXTENDS Integers, Sequences, FiniteSets, TLC

(***************************************************************************)
(* Program constants.                                                      *)
(***************************************************************************)
CLOCK_RESOLUTION_4_PPQN == 0
CLOCK_RESOLUTION_8_PPQN == 1
CLOCK_RESOLUTION_24_PPQN == 2

\* The length of the step cycle and of the Euclidean cursors: the `% 32`.
StepsPerPattern == 32

\* The number of channels: every `range(3)`.
NumChannels == 3

\* The fixed accent threshold of evaluate_drums.
AccentThreshold == 192

\* The output word's clock and reset bits.
OUTPUT_BIT_CLOCK == 6
OUTPUT_BIT_RESET == 7

(***************************************************************************)
(* Bounds of the model.                                                    *)
(***************************************************************************)
\* The largest num_pulses passed to tick_clock.
MaxTick == 3

\* The pulse counter is a Python int and can grow without limit when
\* tick_clock is given more pulses than a step holds; calls that would take
\* it beyond MaxPulse are left out.
MaxPulse == 6

\* Cycles of 32 steps the driver loop of main is followed for.
MaxCycles == 2

\* The length of the drumkit of the host's patches module, which set_preset
\* tests presets against; the constructor's presets need at least 3.
DrumkitLen == 3

\* Slots of the host's sequencer that seq_add_callback can hand out.
MaxSlots == 2

(***************************************************************************)
(* The values the model draws inputs from.                                 *)
(***************************************************************************)
Channels == 0 .. (NumChannels - 1)

Resolutions ==
  {CLOCK_RESOLUTION_4_PPQN, CLOCK_RESOLUTION_8_PPQN, CLOCK_RESOLUTION_24_PPQN}

\* Outcomes of random.randint(0, 255) in evaluate_drums.
RandomBytes == {0, 100}

RandomDraws == [1 .. NumChannels -> RandomBytes]

\* Coordinates given to set_x and set_y where the interpolator is examined:
\* the corners, both sides of a cell boundary and points inside cells.
InterpCoordinates == {0, 63, 64, 128, 200, 255}

\* Parameters given to the setters where the grid evaluation is examined.
GridXValues == {0, 128}

GridYValues == {128, 255}

GridDensities == {128, 255}

ChaosValues == {0, 255}

\* Densities given to set_density where the Euclidean evaluation is
\* examined: both ends, both sides of a length boundary, the default.
EuclideanDensities == {0, 31, 32, 128, 255}

\* Arguments given to get_euclidean_pattern: every valid step count and
\* pulse count, and the first invalid ones on both sides.
LookupSteps == 0 .. 33

LookupPulses == (-1) .. 33

\* Densities where the effect of density on the triggers is examined: none,
\* the default and full, each of them on each channel.
TriggerDensities ==
  { << 0, 128, 255 >>, << 255, 0, 128 >>, << 128, 255, 0 >> }

\* Arguments given to set_preset, set_velocity, set_pitch and set_pan: the
\* first and the last channel and the integers next to them, the first and
\* the last preset and the integers next to them, and in tenths the levels
\* 0.0 and 1.0 and the values -0.1 and 1.1.
HostChannels == {-1, 0, NumChannels - 1, NumChannels}

PresetValues == {-1, 0, DrumkitLen - 1, DrumkitLen}

LevelValues == {-1, 0, 10, 11}

SeqSlots == 0 .. (MaxSlots - 1)

\* Integers outside 0 .. 255 given to the setters.
OutOfRangeValues == {-1, 256, 300}

\* Values given to the setters where their checks are examined: a byte and
\* the integers that are not bytes.
SetterValues == {255} \cup OutOfRangeValues

(***************************************************************************)
(* Bit arithmetic on non-negative integers.                                *)
(***************************************************************************)
\* 1 if `w & (1 << k)` is non-zero, else 0.
Bit(w, k) == (w \div (2 ^ k)) % 2

\* Bit k (0..31) of a 32-bit mask << high, low >>.
MaskBit(p, k) == IF k < 16 THEN Bit(p[2], k) ELSE Bit(p[1], k - 16)

Min(a, b) == IF a < b THEN a ELSE b

(***************************************************************************)
(* Data tables.                                                            *)
(***************************************************************************)
node_0 ==
  << 255, 0, 0, 0, 0, 0, 145, 0, 0, 0, 0, 0, 218, 0, 0, 0, 72, 0, 36, 0, 182, 0, 0, 0, 109, 0, 0, 0, 72, 0, 0, 0,
     36, 0, 109, 0, 0, 0, 8, 0, 255, 0, 0, 0, 0, 0, 72, 0, 0, 0, 182, 0, 0, 0, 36, 0, 218, 0, 0, 0, 145, 0, 0, 0,
     170, 0, 113, 0, 255, 0, 56, 0, 170, 0, 141, 0, 198, 0, 56, 0, 170, 0, 113, 0, 226, 0, 28, 0, 170, 0, 113, 0, 198, 0, 85, 0 >>

node_1 ==
  << 229, 0, 25, 0, 102, 0, 25, 0, 204, 0, 25, 0, 76, 0, 8, 0, 255, 0, 8, 0, 51, 0, 25, 0, 178, 0, 25, 0, 153, 0, 127, 0,
     28, 0, 198, 0, 56, 0, 56, 0, 226, 0, 28, 0, 141, 0, 28, 0, 28, 0, 170, 0, 28, 0, 28, 0, 255, 0, 113, 0, 85, 0, 85, 0,
     159, 0, 159, 0, 255, 0, 63, 0, 159, 0, 159, 0, 191, 0, 31, 0, 159, 0, 127, 0, 255, 0, 31, 0, 159, 0, 127, 0, 223, 0, 95, 0 >>

node_2 ==
  << 255, 0, 0, 0, 127, 0, 0, 0, 0, 0, 102, 0, 0, 0, 229, 0, 0, 0, 178, 0, 204, 0, 0, 0, 76, 0, 51, 0, 153, 0, 25, 0,
     0, 0, 127, 0, 0, 0, 0, 0, 255, 0, 191, 0, 31, 0, 63, 0, 0, 0, 95, 0, 0, 0, 0, 0, 223, 0, 0, 0, 31, 0, 159, 0,
     255, 0, 85, 0, 148, 0, 85, 0, 127, 0, 85, 0, 106, 0, 63, 0, 212, 0, 170, 0, 191, 0, 170, 0, 85, 0, 42, 0, 233, 0, 21, 0 >>

node_3 ==
  << 255, 0, 212, 0, 63, 0, 0, 0, 106, 0, 148, 0, 85, 0, 127, 0, 191, 0, 21, 0, 233, 0, 0, 0, 21, 0, 170, 0, 0, 0, 42, 0,
     0, 0, 0, 0, 141, 0, 113, 0, 255, 0, 198, 0, 0, 0, 56, 0, 0, 0, 85, 0, 56, 0, 28, 0, 226, 0, 28, 0, 170, 0, 56, 0,
     255, 0, 231, 0, 255, 0, 208, 0, 139, 0, 92, 0, 115, 0, 92, 0, 185, 0, 69, 0, 46, 0, 46, 0, 162, 0, 23, 0, 208, 0, 46, 0 >>

node_4 ==
  << 255, 0, 31, 0, 63, 0, 63, 0, 127, 0, 95, 0, 191, 0, 63, 0, 223, 0, 31, 0, 159, 0, 63, 0, 31, 0, 63, 0, 95, 0, 31, 0,
     8, 0, 0, 0, 95, 0, 63, 0, 255, 0, 0, 0, 127, 0, 0, 0, 8, 0, 0, 0, 159, 0, 63, 0, 255, 0, 223, 0, 191, 0, 31, 0,
     76, 0, 25, 0, 255, 0, 127, 0, 153, 0, 51, 0, 204, 0, 102, 0, 76, 0, 51, 0, 229, 0, 127, 0, 153, 0, 51, 0, 178, 0, 102, 0 >>

node_5 ==
  << 255, 0, 51, 0, 25, 0, 76, 0, 0, 0, 0, 0, 102, 0, 0, 0, 204, 0, 229, 0, 0, 0, 178, 0, 0, 0, 153, 0, 127, 0, 8, 0,
     178, 0, 127, 0, 153, 0, 204, 0, 255, 0, 0, 0, 25, 0, 76, 0, 102, 0, 51, 0, 0, 0, 0, 0, 229, 0, 25, 0, 25, 0, 204, 0,
     178, 0, 102, 0, 255, 0, 76, 0, 127, 0, 76, 0, 229, 0, 76, 0, 153, 0, 102, 0, 255, 0, 25, 0, 127, 0, 51, 0, 204, 0, 51, 0 >>

node_6 ==
  << 255, 0, 0, 0, 223, 0, 0, 0, 31, 0, 8, 0, 127, 0, 0, 0, 95, 0, 0, 0, 159, 0, 0, 0, 95, 0, 63, 0, 191, 0, 0, 0,
     51, 0, 204, 0, 0, 0, 102, 0, 255, 0, 127, 0, 8, 0, 178, 0, 25, 0, 229, 0, 0, 0, 76, 0, 204, 0, 153, 0, 51, 0, 25, 0,
     255, 0, 226, 0, 255, 0, 255, 0, 198, 0, 28, 0, 141, 0, 56, 0, 170, 0, 56, 0, 85, 0, 28, 0, 170, 0, 28, 0, 113, 0, 56, 0 >>

node_7 ==
  << 223, 0, 0, 0, 63, 0, 0, 0, 95, 0, 0, 0, 223, 0, 31, 0, 255, 0, 0, 0, 159, 0, 0, 0, 127, 0, 31, 0, 191, 0, 31, 0,
     0, 0, 0, 0, 109, 0, 0, 0, 218, 0, 0, 0, 182, 0, 72, 0, 8, 0, 36, 0, 145, 0, 36, 0, 255, 0, 8, 0, 182, 0, 72, 0,
     255, 0, 72, 0, 218, 0, 36, 0, 218, 0, 0, 0, 145, 0, 0, 0, 255, 0, 36, 0, 182, 0, 36, 0, 182, 0, 0, 0, 109, 0, 0, 0 >>

node_8 ==
  << 255, 0, 0, 0, 218, 0, 0, 0, 36, 0, 0, 0, 218, 0, 0, 0, 182, 0, 109, 0, 255, 0, 0, 0, 0, 0, 0, 0, 145, 0, 72, 0,
     159, 0, 0, 0, 31, 0, 127, 0, 255, 0, 31, 0, 0, 0, 95, 0, 8, 0, 0, 0, 191, 0, 31, 0, 255, 0, 31, 0, 223, 0, 63, 0,
     255, 0, 31, 0, 63, 0, 31, 0, 95, 0, 31, 0, 63, 0, 127, 0, 159, 0, 31, 0, 63, 0, 31, 0, 223, 0, 223, 0, 191, 0, 191, 0 >>

node_9 ==
  << 226, 0, 28, 0, 28, 0, 141, 0, 8, 0, 8, 0, 255, 0, 8, 0, 113, 0, 28, 0, 198, 0, 85, 0, 56, 0, 198, 0, 170, 0, 28, 0,
     8, 0, 95, 0, 8, 0, 8, 0, 255, 0, 63, 0, 31, 0, 223, 0, 8, 0, 31, 0, 191, 0, 8, 0, 255, 0, 127, 0, 127, 0, 159, 0,
     115, 0, 46, 0, 255, 0, 185, 0, 139, 0, 23, 0, 208, 0, 115, 0, 231, 0, 69, 0, 255, 0, 162, 0, 139, 0, 115, 0, 231, 0, 92, 0 >>

node_10 ==
  << 145, 0, 0, 0, 0, 0, 109, 0, 0, 0, 0, 0, 255, 0, 109, 0, 72, 0, 218, 0, 0, 0, 0, 0, 36, 0, 0, 0, 182, 0, 0, 0,
     0, 0, 127, 0, 159, 0, 127, 0, 159, 0, 191, 0, 223, 0, 63, 0, 255, 0, 95, 0, 31, 0, 95, 0, 31, 0, 8, 0, 63, 0, 8, 0,
     255, 0, 0, 0, 145, 0, 0, 0, 182, 0, 109, 0, 109, 0, 109, 0, 218, 0, 0, 0, 72, 0, 0, 0, 182, 0, 72, 0, 182, 0, 36, 0 >>

node_11 ==
  << 255, 0, 0, 0, 0, 0, 0, 0, 0, 0, 0, 0, 0, 0, 0, 0, 255, 0, 0, 0, 218, 0, 72, 36, 0, 0, 182, 0, 0, 0, 145, 109,
     0, 0, 127, 0, 0, 0, 42, 0, 212, 0, 0, 212, 0, 0, 212, 0, 0, 0, 0, 0, 42, 0, 0, 0, 255, 0, 0, 0, 170, 170, 127, 85,
     145, 0, 109, 109, 218, 109, 72, 0, 145, 0, 72, 0, 218, 0, 109, 0, 182, 0, 109, 0, 255, 0, 72, 0, 182, 109, 36, 109, 255, 109, 109, 0 >>

node_12 ==
  << 255, 0, 0, 0, 255, 0, 191, 0, 0, 0, 0, 0, 95, 0, 63, 0, 31, 0, 0, 0, 223, 0, 223, 0, 0, 0, 8, 0, 159, 0, 127, 0,
     0, 0, 85, 0, 56, 0, 28, 0, 255, 0, 28, 0, 0, 0, 226, 0, 0, 0, 170, 0, 56, 0, 113, 0, 198, 0, 0, 0, 113, 0, 141, 0,
     255, 0, 42, 0, 233, 0, 63, 0, 212, 0, 85, 0, 191, 0, 106, 0, 191, 0, 21, 0, 170, 0, 8, 0, 170, 0, 127, 0, 148, 0, 148, 0 >>

node_13 ==
  << 255, 0, 0, 0, 0, 0, 63, 0, 191, 0, 95, 0, 31, 0, 223, 0, 255, 0, 63, 0, 95, 0, 63, 0, 159, 0, 0, 0, 0, 0, 127, 0,
     72, 0, 0, 0, 0, 0, 0, 0, 255, 0, 0, 0, 0, 0, 0, 0, 72, 0, 72, 0, 36, 0, 8, 0, 218, 0, 182, 0, 145, 0, 109, 0,
     255, 0, 162, 0, 231, 0, 162, 0, 231, 0, 115, 0, 208, 0, 139, 0, 185, 0, 92, 0, 185, 0, 46, 0, 162, 0, 69, 0, 162, 0, 23, 0 >>

node_14 ==
  << 255, 0, 0, 0, 51, 0, 0, 0, 0, 0, 0, 0, 102, 0, 0, 0, 204, 0, 0, 0, 153, 0, 0, 0, 0, 0, 0, 0, 51, 0, 0, 0,
     0, 0, 0, 0, 8, 0, 36, 0, 255, 0, 0, 0, 182, 0, 8, 0, 0, 0, 0, 0, 72, 0, 109, 0, 145, 0, 0, 0, 255, 0, 218, 0,
     212, 0, 8, 0, 170, 0, 0, 0, 127, 0, 0, 0, 85, 0, 8, 0, 255, 0, 8, 0, 170, 0, 0, 0, 127, 0, 0, 0, 42, 0, 8, 0 >>

node_15 ==
  << 255, 0, 0, 0, 0, 0, 0, 0, 36, 0, 0, 0, 182, 0, 0, 0, 218, 0, 0, 0, 0, 0, 0, 0, 72, 0, 0, 0, 145, 0, 109, 0,
     36, 0, 36, 0, 0, 0, 0, 0, 255, 0, 0, 0, 182, 0, 0, 0, 0, 0, 0, 0, 0, 0, 0, 109, 218, 0, 0, 0, 145, 0, 72, 72,
     255, 0, 28, 0, 226, 0, 56, 0, 198, 0, 0, 0, 0, 0, 28, 28, 170, 0, 0, 0, 141, 0, 0, 0, 113, 0, 0, 0, 85, 85, 85, 85 >>

node_16 ==
  << 255, 0, 0, 0, 0, 0, 95, 0, 0, 0, 127, 0, 0, 0, 0, 0, 223, 0, 95, 0, 63, 0, 31, 0, 191, 0, 0, 0, 159, 0, 0, 0,
     0, 0, 31, 0, 255, 0, 0, 0, 0, 0, 95, 0, 223, 0, 0, 0, 0, 0, 63, 0, 191, 0, 0, 0, 0, 0, 0, 0, 159, 0, 127, 0,
     141, 0, 28, 0, 28, 0, 28, 0, 113, 0, 8, 0, 8, 0, 8, 0, 255, 0, 0, 0, 226, 0, 0, 0, 198, 0, 56, 0, 170, 0, 85, 0 >>

node_17 ==
  << 255, 0, 0, 0, 8, 0, 0, 0, 182, 0, 0, 0, 72, 0, 0, 0, 218, 0, 0, 0, 36, 0, 0, 0, 145, 0, 0, 0, 109, 0, 0, 0,
     0, 0, 51, 25, 76, 25, 25, 0, 153, 0, 0, 0, 127, 102, 178, 0, 204, 0, 0, 0, 0, 0, 255, 0, 0, 0, 102, 0, 229, 0, 76, 0,
     113, 0, 0, 0, 141, 0, 85, 0, 0, 0, 0, 0, 170, 0, 0, 0, 56, 28, 255, 0, 0, 0, 0, 0, 198, 0, 0, 0, 226, 0, 0, 0 >>

node_18 ==
  << 255, 0, 8, 0, 28, 0, 28, 0, 198, 0, 56, 0, 56, 0, 85, 0, 255, 0, 85, 0, 113, 0, 113, 0, 226, 0, 141, 0, 170, 0, 141, 0,
     0, 0, 0, 0, 0, 0, 0, 0, 255, 0, 0, 0, 127, 0, 0, 0, 0, 0, 0, 0, 0, 0, 0, 0, 63, 0, 0, 0, 191, 0, 0, 0,
     255, 0, 0, 0, 255, 0, 127, 0, 0, 0, 85, 0, 0, 0, 212, 0, 0, 0, 212, 0, 42, 0, 170, 0, 0, 0, 127, 0, 0, 0, 0, 0 >>

node_19 ==
  << 255, 0, 0, 0, 0, 0, 218, 0, 182, 0, 0, 0, 0, 0, 145, 0, 145, 0, 36, 0, 0, 0, 109, 0, 109, 0, 0, 0, 72, 0, 36, 0,
     0, 0, 0, 0, 109, 0, 8, 0, 72, 0, 0, 0, 255, 0, 182, 0, 0, 0, 0, 0, 145, 0, 8, 0, 36, 0, 8, 0, 218, 0, 182, 0,
     255, 0, 0, 0, 0, 0, 226, 0, 85, 0, 0, 0, 141, 0, 0, 0, 0, 0, 0, 0, 170, 0, 56, 0, 198, 0, 0, 0, 113, 0, 28, 0 >>

node_20 ==
  << 255, 0, 0, 0, 113, 0, 0, 0, 198, 0, 56, 0, 85, 0, 28, 0, 255, 0, 0, 0, 226, 0, 0, 0, 170, 0, 0, 0, 141, 0, 0, 0,
     0, 0, 0, 0, 0, 0, 0, 0, 255, 0, 145, 0, 109, 0, 218, 0, 36, 0, 182, 0, 72, 0, 72, 0, 255, 0, 0, 0, 0, 0, 109, 0,
     36, 0, 36, 0, 145, 0, 0, 0, 72, 0, 72, 0, 182, 0, 0, 0, 72, 0, 72, 0, 218, 0, 0, 0, 109, 0, 109, 0, 255, 0, 0, 0 >>

node_21 ==
  << 255, 0, 0, 0, 218, 0, 0, 0, 145, 0, 0, 0, 36, 0, 0, 0, 218, 0, 0, 0, 36, 0, 0, 0, 182, 0, 72, 0, 0, 0, 109, 0,
     0, 0, 0, 0, 8, 0, 0, 0, 255, 0, 85, 0, 212, 0, 42, 0, 0, 0, 0, 0, 8, 0, 0, 0, 85, 0, 170, 0, 127, 0, 42, 0,
     109, 0, 109, 0, 255, 0, 0, 0, 72, 0, 72, 0, 218, 0, 0, 0, 145, 0, 182, 0, 255, 0, 0, 0, 36, 0, 36, 0, 218, 0, 8, 0 >>

node_22 ==
  << 255, 0, 0, 0, 42, 0, 0, 0, 212, 0, 0, 0, 8, 0, 212, 0, 170, 0, 0, 0, 85, 0, 0, 0, 212, 0, 8, 0, 127, 0, 8, 0,
     255, 0, 85, 0, 0, 0, 0, 0, 226, 0, 85, 0, 0, 0, 198, 0, 0, 0, 141, 0, 56, 0, 0, 0, 170, 0, 28, 0, 0, 0, 113, 0,
     113, 0, 56, 0, 255, 0, 0, 0, 85, 0, 56, 0, 226, 0, 0, 0, 0, 0, 170, 0, 0, 0, 141, 0, 28, 0, 28, 0, 198, 0, 28, 0 >>

node_23 ==
  << 255, 0, 0, 0, 229, 0, 0, 0, 204, 0, 204, 0, 0, 0, 76, 0, 178, 0, 153, 0, 51, 0, 178, 0, 178, 0, 127, 0, 102, 51, 51, 25,
     0, 0, 0, 0, 0, 0, 0, 31, 0, 0, 0, 0, 255, 0, 0, 31, 0, 0, 8, 0, 0, 0, 191, 159, 127, 95, 95, 0, 223, 0, 63, 0,
     255, 0, 255, 0, 204, 204, 204, 204, 0, 0, 51, 51, 51, 51, 0, 0, 204, 0, 204, 0, 153, 153, 153, 153, 153, 0, 0, 0, 102, 102, 102, 102 >>

node_24 ==
  << 170, 0, 0, 0, 0, 255, 0, 0, 198, 0, 0, 0, 0, 28, 0, 0, 141, 0, 0, 0, 0, 226, 0, 0, 56, 0, 0, 113, 0, 85, 0, 0,
     255, 0, 0, 0, 0, 113, 0, 0, 85, 0, 0, 0, 0, 226, 0, 0, 141, 0, 0, 8, 0, 170, 56, 56, 198, 0, 0, 56, 0, 141, 28, 0,
     255, 0, 0, 0, 0, 191, 0, 0, 159, 0, 0, 0, 0, 223, 0, 0, 95, 0, 0, 0, 0, 63, 0, 0, 127, 0, 0, 0, 0, 31, 0, 0 >>

\* The 5x5 grid of nodes; drum_map[i + 1][j + 1] is the source's drum_map[i][j].
drum_map ==
  << << node_10, node_8, node_0, node_9, node_11 >>,
     << node_15, node_7, node_13, node_12, node_6 >>,
     << node_18, node_14, node_4, node_5, node_3 >>,
     << node_23, node_16, node_21, node_1, node_2 >>,
     << node_24, node_19, node_17, node_20, node_22 >> >>

\* The 256 32-bit masks, each written as << high 16 bits, low 16 bits >>;
\* euclidean_patterns[k + 1] is the source's euclidean_patterns[k].
euclidean_patterns ==
  << <<0, 0>>, <<32768, 0>>, <<32768, 32768>>, <<32896, 32896>>, <<34824, 2056>>, <<34824, 32904>>, <<34952, 34952>>, <<37449, 9362>>,
     <<0, 0>>, <<32768, 0>>, <<32768, 32768>>, <<32896, 32896>>, <<34824, 2056>>, <<34824, 32904>>, <<34952, 34952>>, <<37449, 9362>>,
     <<0, 0>>, <<32768, 0>>, <<32768, 32768>>, <<32896, 32896>>, <<34824, 2056>>, <<34824, 32904>>, <<34952, 34952>>, <<37449, 9362>>,
     <<0, 0>>, <<32768, 0>>, <<32768, 32768>>, <<32896, 32896>>, <<34824, 2056>>, <<34824, 32904>>, <<34952, 34952>>, <<37449, 9362>>,
     <<0, 0>>, <<32768, 0>>, <<33792, 16384>>, <<33824, 33808>>, <<34850, 2065>>, <<35090, 18569>>, <<37156, 34961>>, <<37449, 9362>>,
     <<0, 0>>, <<32768, 0>>, <<33280, 8192>>, <<34824, 8320>>, <<34946, 8320>>, <<37008, 37000>>, <<37412, 37449>>, <<38034, 18724>>,
     <<0, 0>>, <<32768, 0>>, <<32768, 32768>>, <<33792, 33792>>, <<34824, 18440>>, <<36872, 36872>>, <<37416, 37416>>, <<37960, 37960>>,
     <<0, 0>>, <<32768, 0>>, <<32772, 0>>, <<33288, 8320>>, <<34824, 18440>>, <<34952, 34824>>, <<37416, 34952>>, <<37448, 34952>>,
     <<0, 0>>, <<32768, 0>>, <<32768, 32768>>, <<32896, 32896>>, <<33800, 16516>>, <<34824, 34824>>, <<36873, 2313>>, <<37449, 9362>>,
     <<0, 0>>, <<32768, 0>>, <<32768, 32768>>, <<32896, 32896>>, <<33800, 16516>>, <<34824, 34824>>, <<36873, 2313>>, <<37449, 9362>>,
     <<0, 0>>, <<32768, 0>>, <<32770, 0>>, <<33280, 33280>>, <<34818, 8328>>, <<34952, 33314>>, <<37008, 37008>>, <<37449, 9362>>,
     <<0, 0>>, <<32768, 0>>, <<32784, 16>>, <<33808, 16644>>, <<34952, 33808>>, <<37008, 37008>>, <<37449, 9362>>, <<38034, 18724>>,
     <<0, 0>>, <<32768, 0>>, <<32896, 32896>>, <<33924, 33924>>, <<34952, 34952>>, <<37008, 37008>>, <<37449, 9362>>, <<38034, 18724>>,
     <<0, 0>>, <<32768, 0>>, <<33280, 0>>, <<34816, 2048>>, <<34952, 32768>>, <<37008, 37000>>, <<37449, 9360>>, <<38034, 18724>>,
     <<0, 0>>, <<32768, 0>>, <<33280, 0>>, <<34816, 2048>>, <<34952, 32768>>, <<37008, 37000>>, <<37449, 9360>>, <<38034, 18724>>,
     <<0, 0>>, <<32768, 0>>, <<33792, 0>>, <<34848, 2080>>, <<34952, 33312>>, <<37008, 37008>>, <<37449, 9362>>, <<38034, 18724>>,
     <<0, 0>>, <<32768, 0>>, <<34816, 0>>, <<34952, 2176>>, <<34952, 34952>>, <<37008, 37008>>, <<37449, 9362>>, <<38034, 18724>>,
     <<0, 0>>, <<32768, 0>>, <<34816, 0>>, <<34952, 2176>>, <<34952, 34952>>, <<37008, 37008>>, <<37449, 9362>>, <<38034, 18724>>,
     <<0, 0>>, <<32768, 0>>, <<34816, 0>>, <<34952, 2176>>, <<34952, 34952>>, <<37008, 37008>>, <<37449, 9362>>, <<38034, 18724>>,
     <<0, 0>>, <<32768, 0>>, <<34816, 0>>, <<34952, 2176>>, <<34952, 34952>>, <<37008, 37008>>, <<37449, 9362>>, <<38034, 18724>>,
     <<0, 0>>, <<32768, 0>>, <<36864, 0>>, <<37008, 37008>>, <<37008, 37008>>, <<37449, 9362>>, <<37449, 9362>>, <<38034, 18724>>,
     <<0, 0>>, <<32768, 0>>, <<36864, 0>>, <<37008, 37008>>, <<37008, 37008>>, <<37449, 9362>>, <<37449, 9362>>, <<38034, 18724>>,
     <<0, 0>>, <<32768, 0>>, <<36864, 0>>, <<37008, 37008>>, <<37008, 37008>>, <<37449, 9362>>, <<37449, 9362>>, <<38034, 18724>>,
     <<0, 0>>, <<32768, 0>>, <<36864, 0>>, <<37008, 37008>>, <<37008, 37008>>, <<37449, 9362>>, <<37449, 9362>>, <<38034, 18724>>,
     <<0, 0>>, <<32768, 0>>, <<40960, 0>>, <<41120, 41120>>, <<41120, 41120>>, <<42148, 42148>>, <<42148, 42148>>, <<42148, 42148>>,
     <<0, 0>>, <<32768, 0>>, <<40960, 0>>, <<41120, 41120>>, <<41120, 41120>>, <<42148, 42148>>, <<42148, 42148>>, <<42148, 42148>>,
     <<0, 0>>, <<32768, 0>>, <<40960, 0>>, <<41120, 41120>>, <<41120, 41120>>, <<42148, 42148>>, <<42148, 42148>>, <<42148, 42148>>,
     <<0, 0>>, <<32768, 0>>, <<40960, 0>>, <<41120, 41120>>, <<41120, 41120>>, <<42148, 42148>>, <<42148, 42148>>, <<42148, 42148>>,
     <<0, 0>>, <<32768, 0>>, <<49152, 0>>, <<49344, 49344>>, <<49344, 49344>>, <<49344, 49344>>, <<49344, 49344>>, <<50372, 50372>>,
     <<0, 0>>, <<32768, 0>>, <<49152, 0>>, <<49344, 49344>>, <<49344, 49344>>, <<49344, 49344>>, <<49344, 49344>>, <<50372, 50372>>,
     <<0, 0>>, <<32768, 0>>, <<49152, 0>>, <<49344, 49344>>, <<49344, 49344>>, <<49344, 49344>>, <<49344, 49344>>, <<50372, 50372>>,
     <<0, 0>>, <<32768, 0>>, <<49152, 0>>, <<49344, 49344>>, <<49344, 49344>>, <<49344, 49344>>, <<49344, 49344>>, <<50372, 50372>> >>


(***************************************************************************)
(* State.                                                                  *)
(***************************************************************************)
VARIABLES
  x, y,               \* PatternGenerator.x, .y
  randomness,         \* PatternGenerator.randomness
  density,            \* PatternGenerator.density, one per channel
  step, pulse,        \* PatternGenerator.step, .pulse
  euclidean_step,     \* PatternGenerator.euclidean_step, one per channel
  output_mode,        \* PatternGenerator.output_mode
  clock_resolution,   \* PatternGenerator.clock_resolution
  pulses_per_step,    \* PatternGenerator.pulses_per_step
  part_perturbation,  \* PatternGenerator.part_perturbation, one per channel
  mode,               \* TulipGrids.mode
  call,               \* the last operation: its name, argument and result
  hist,               \* words of the Euclidean evaluations made since the
                      \* cursors were last all 0, while density was not set
  run,                \* the driver loop of main: evaluations and ticks made
                      \* and what the returned words were
  drum_presets,       \* TulipGrids.drum_presets, one per channel
  velocities,         \* TulipGrids.velocities, in tenths
  pitches,            \* TulipGrids.pitches, in tenths
  pans,               \* TulipGrids.pans, in tenths
  seq_slot,           \* TulipGrids.seq_slot
  callbacks           \* the slots of the sequencer that hold a callback of
                      \* this TulipGrids

engine == << x, y, randomness, density, step, pulse, euclidean_step,
             output_mode, clock_resolution, pulses_per_step,
             part_perturbation >>

vars == << x, y, randomness, density, step, pulse, euclidean_step,
           output_mode, clock_resolution, pulses_per_step,
           part_perturbation, mode, call, hist, run, drum_presets,
           velocities, pitches, pans, seq_slot, callbacks >>

\* The fields of TulipGrids beside the engine and the mode, and the
\* sequencer's registrations.
host == << drum_presets, velocities, pitches, pans, seq_slot, callbacks >>

(***************************************************************************)
(* PatternGenerator: the interpolator.                                     *)
(***************************************************************************)
\* A mix that gives the first value its full weight at every balance.
u8_mix_unweighted(a, b, balance) == ((b * balance) + (a * 255)) \div 256

\* A mix that divides by 255, exact at balance 0 and 255.
u8_mix_exact(a, b, balance) == ((b * balance) + (a * (255 - balance))) \div 255

u8_mix(a, b, balance) == ((b * balance) + (a * (255 - balance))) \div 256

read_drum_map(px, py, s, instrument) ==
  LET i == px \div 64
      j == py \div 64
      offset == (instrument * 32) + s
      a == drum_map[i + 1][j + 1][offset + 1]
      b == drum_map[Min(i + 1, 4) + 1][j + 1][offset + 1]
      c == drum_map[i + 1][Min(j + 1, 4) + 1][offset + 1]
      d == drum_map[Min(i + 1, 4) + 1][Min(j + 1, 4) + 1][offset + 1]
      x_balance == (px % 64) * 4
      y_balance == (py % 64) * 4
  IN  u8_mix(u8_mix(a, b, x_balance), u8_mix(c, d, x_balance), y_balance)

(***************************************************************************)
(* PatternGenerator: grid evaluation.                                      *)
(***************************************************************************)
\* A re-roll made at every step.
roll_perturbation_every_step(s, rnd, pp, r) ==
  [i \in 1 .. NumChannels |-> (r[i] * rnd) \div 256]

\* A re-roll that takes the drawn bytes as they are.
roll_perturbation_unscaled(s, rnd, pp, r) ==
  IF s = 0
    THEN [i \in 1 .. NumChannels |-> r[i]]
    ELSE pp

\* The re-roll at the start of a cycle; r[i + 1] is the byte drawn for
\* channel i.
roll_perturbation(s, rnd, pp, r) ==
  IF s = 0
    THEN [i \in 1 .. NumChannels |-> (r[i] * rnd) \div 256]
    ELSE pp

\* An add that wraps as an 8-bit sum does.
perturb_wrapping(level, p) == (level + p) % 256

\* The saturating add of the perturbation.
perturb(level, p) == IF level < 255 - p THEN level + p ELSE 255

channel_level(px, py, s, pp, i) ==
  perturb(read_drum_map(px, py, s, i), pp[i + 1])

\* A trigger that compares the level with the density itself.
trigger_against_density(px, py, dens, s, pp, i) ==
  channel_level(px, py, s, pp, i) > dens[i + 1]

trigger(px, py, dens, s, pp, i) ==
  channel_level(px, py, s, pp, i) > 255 - dens[i + 1]

accent(px, py, dens, s, pp, i) ==
  /\ trigger(px, py, dens, s, pp, i)
  /\ channel_level(px, py, s, pp, i) > AccentThreshold

\* 2^i if P holds, else 0: the `|= 1 << i`.
bit_if(P, i) == IF P THEN 2 ^ i ELSE 0

\* A word whose reset bit marks the last step of the cycle.
drums_word_reset_at_end(px, py, dens, s, pp) ==
  LET state == bit_if(trigger(px, py, dens, s, pp, 0), 0)
                 + bit_if(trigger(px, py, dens, s, pp, 1), 1)
                 + bit_if(trigger(px, py, dens, s, pp, 2), 2)
      accent_bits == bit_if(accent(px, py, dens, s, pp, 0), 0)
                       + bit_if(accent(px, py, dens, s, pp, 1), 1)
                       + bit_if(accent(px, py, dens, s, pp, 2), 2)
      combined_state == state + (accent_bits * 8) + (2 ^ OUTPUT_BIT_CLOCK)
  IN  IF s = StepsPerPattern - 1 THEN combined_state + (2 ^ OUTPUT_BIT_RESET)
                                 ELSE combined_state

\* The word evaluate_drums returns when the perturbation in use is pp.
drums_word(px, py, dens, s, pp) ==
  LET state == bit_if(trigger(px, py, dens, s, pp, 0), 0)
                 + bit_if(trigger(px, py, dens, s, pp, 1), 1)
                 + bit_if(trigger(px, py, dens, s, pp, 2), 2)
      accent_bits == bit_if(accent(px, py, dens, s, pp, 0), 0)
                       + bit_if(accent(px, py, dens, s, pp, 1), 1)
                       + bit_if(accent(px, py, dens, s, pp, 2), 2)
      combined_state == state + (accent_bits * 8) + (2 ^ OUTPUT_BIT_CLOCK)
  IN  IF s = 0 THEN combined_state + (2 ^ OUTPUT_BIT_RESET)
               ELSE combined_state

(***************************************************************************)
(* PatternGenerator: Euclidean evaluation.                                 *)
(***************************************************************************)
euclidean_length(d) == (d \div 32) + 1

\* The 0-based index into euclidean_patterns used for a density.
euclidean_index(d) == euclidean_length(d) - 1

euclidean_pattern(d) == euclidean_patterns[euclidean_index(d) + 1]

euclidean_word(dens, cursor) ==
  bit_if(MaskBit(euclidean_pattern(dens[1]), cursor[1]) = 1, 0)
    + bit_if(MaskBit(euclidean_pattern(dens[2]), cursor[2]) = 1, 1)
    + bit_if(MaskBit(euclidean_pattern(dens[3]), cursor[3]) = 1, 2)

\* A cursor that wraps one step early.
euclidean_advance_short(cursor) ==
  [i \in 1 .. NumChannels |-> (cursor[i] + 1) % (StepsPerPattern - 1)]

\* Cursors that wrap at a different length on each channel.
euclidean_advance_by_channel(cursor) ==
  [i \in 1 .. NumChannels |-> (cursor[i] + 1) % (StepsPerPattern - i + 1)]

euclidean_advance(cursor) ==
  [i \in 1 .. NumChannels |-> (cursor[i] + 1) % StepsPerPattern]

(***************************************************************************)
(* PatternGenerator: the clock divider.                                    *)
(***************************************************************************)
pulses_for(resolution) ==
  IF resolution = CLOCK_RESOLUTION_4_PPQN THEN 1
  ELSE IF resolution = CLOCK_RESOLUTION_8_PPQN THEN 2
  ELSE 3

\* A rollover that waits for the pulse to pass the step's length.
tick_wraps_late(p, n, pps) == p + n > pps

\* Whether tick_clock(n) crosses into the next step.
tick_wraps(p, n, pps) == p + n >= pps

tick_pulse(p, n, pps) == IF tick_wraps(p, n, pps) THEN p + n - pps ELSE p + n

\* A step counter that is not wrapped.
tick_step_unwrapped(s, p, n, pps) ==
  IF tick_wraps(p, n, pps) THEN s + 1 ELSE s

tick_step(s, p, n, pps) ==
  IF tick_wraps(p, n, pps) THEN (s + 1) % StepsPerPattern ELSE s

(***************************************************************************)
(* Which evaluation a call runs: "evaluate_drums", "evaluate_euclidean" or *)
(* "none".                                                                 *)
(***************************************************************************)
\* evaluate without the test of pulse.
evaluate_path_any_pulse ==
  IF output_mode = "grids" THEN "evaluate_drums" ELSE "evaluate_euclidean"

\* PatternGenerator.evaluate
evaluate_path ==
  IF pulse = 0
    THEN IF output_mode = "grids" THEN "evaluate_drums"
                                  ELSE "evaluate_euclidean"
    ELSE "none"

\* TulipGrids._sequencer_callback
callback_path ==
  IF mode = "grids" THEN evaluate_path ELSE "evaluate_euclidean"

\* The word returned by the evaluation `path` when the bytes drawn are r.
eval_word(path, r) ==
  IF path = "evaluate_drums"
    THEN drums_word(x, y, density, step,
                    roll_perturbation(step, randomness, part_perturbation, r))
  ELSE IF path = "evaluate_euclidean"
    THEN euclidean_word(density, euclidean_step)
  ELSE 0

\* The window of Euclidean words: it opens when the cursors are all 0.
hist_after(w) ==
  IF euclidean_step = << 0, 0, 0 >> THEN << w >>
  ELSE IF hist # << >> /\ Len(hist) < StepsPerPattern THEN Append(hist, w)
  ELSE << >>

\* An evaluation that moves the cursors in grid mode as well.
eval_effect_advancing(path, r) ==
  /\ part_perturbation' =
       IF path = "evaluate_drums"
         THEN roll_perturbation(step, randomness, part_perturbation, r)
         ELSE part_perturbation
  /\ euclidean_step' =
       IF path # "none" THEN euclidean_advance(euclidean_step)
                        ELSE euclidean_step
  /\ hist' =
       IF path = "evaluate_euclidean"
         THEN hist_after(euclidean_word(density, euclidean_step))
         ELSE hist

\* The state change of the evaluation `path`.
eval_effect(path, r) ==
  /\ part_perturbation' =
       IF path = "evaluate_drums"
         THEN roll_perturbation(step, randomness, part_perturbation, r)
         ELSE part_perturbation
  /\ euclidean_step' =
       IF path = "evaluate_euclidean" THEN euclidean_advance(euclidean_step)
                                      ELSE euclidean_step
  /\ hist' =
       IF path = "evaluate_euclidean"
         THEN hist_after(euclidean_word(density, euclidean_step))
         ELSE hist

\* The bytes an evaluation draws: evaluate_drums draws three at step 0 and
\* nothing else is drawn anywhere.
draws_for(path) ==
  IF path = "evaluate_drums" /\ step = 0 THEN RandomDraws
                                          ELSE {<< 0, 0, 0 >>}

Called(op, arg, ret) == [op |-> op, arg |-> arg, ret |-> ret]

\* The driver loop before its first iteration: n evaluations and ticks
\* calls of tick_clock made, and of the words returned, how many had the
\* clock bit, how many the reset bit, and how many were 0.
NotRun == [n |-> 0, ticks |-> 0, clocks |-> 0, resets |-> 0, zeros |-> 0]

(***************************************************************************)
(* Construction: PatternGenerator.__init__ and TulipGrids.__init__.        *)
(***************************************************************************)
\* `self.seq_slot = None`: the value that is no slot.
None == -1

\* Velocities, pitches and pans are floats between 0 and 1, held here in
\* tenths: One is 1.0 and Half is the constructor's 0.5.
One == 10

Half == 5

\* TulipGrids.__init__, the fields beside the engine and the mode; nothing
\* is registered with the sequencer before start().
HostConstructed ==
  /\ seq_slot = None
  /\ drum_presets = << 1, 2, 0 >>
  /\ velocities = << Half, Half, Half >>
  /\ pitches = << Half, Half, Half >>
  /\ pans = << Half, Half, Half >>
  /\ callbacks = {}

Constructed ==
  /\ x = 128
  /\ y = 128
  /\ randomness = 0
  /\ density = << 128, 128, 128 >>
  /\ step = 0
  /\ pulse = 0
  /\ euclidean_step = << 0, 0, 0 >>
  /\ output_mode = "grids"
  /\ clock_resolution = CLOCK_RESOLUTION_24_PPQN
  /\ pulses_per_step = 3
  /\ part_perturbation = << 0, 0, 0 >>
  /\ mode = "grids"
  /\ hist = << >>
  /\ run = NotRun
  /\ HostConstructed

Init ==
  /\ Constructed
  /\ call = Called("__init__", 0, 0)

(***************************************************************************)
(* Operations of PatternGenerator.                                         *)
(***************************************************************************)
\* A change of resolution that restarts the step at its first pulse.
set_clock_resolution_restarting(resolution) ==
  /\ clock_resolution' = resolution
  /\ pulses_per_step' = pulses_for(resolution)
  /\ pulse' = 0
  /\ call' = Called("set_clock_resolution", resolution, 0)
  /\ UNCHANGED << run, host, x, y, randomness, density, step, euclidean_step,
                  output_mode, part_perturbation, mode, hist >>

set_clock_resolution(resolution) ==
  /\ clock_resolution' = resolution
  /\ pulses_per_step' = pulses_for(resolution)
  /\ call' = Called("set_clock_resolution", resolution, 0)
  /\ UNCHANGED << run, host, x, y, randomness, density, step, pulse, euclidean_step,
                  output_mode, part_perturbation, mode, hist >>

tick_clock(num_pulses) ==
  /\ pulse + num_pulses <= MaxPulse
  /\ pulse' = tick_pulse(pulse, num_pulses, pulses_per_step)
  /\ step' = tick_step(step, pulse, num_pulses, pulses_per_step)
  /\ call' = Called("tick_clock", num_pulses, 0)
  /\ UNCHANGED << run, host, x, y, randomness, density, euclidean_step, output_mode,
                  clock_resolution, pulses_per_step, part_perturbation,
                  mode, hist >>

evaluate ==
  /\ \E r \in draws_for(evaluate_path) :
       /\ eval_effect(evaluate_path, r)
       /\ call' = Called("evaluate", evaluate_path,
                         eval_word(evaluate_path, r))
  /\ UNCHANGED << run, host, x, y, randomness, density, step, pulse, output_mode,
                  clock_resolution, pulses_per_step, mode >>

evaluate_euclidean ==
  /\ eval_effect("evaluate_euclidean", << 0, 0, 0 >>)
  /\ call' = Called("evaluate_euclidean", 0,
                    eval_word("evaluate_euclidean", << 0, 0, 0 >>))
  /\ UNCHANGED << run, host, x, y, randomness, density, step, pulse, output_mode,
                  clock_resolution, pulses_per_step, mode >>

\* A call of read_drum_map on its own.
read_drum_map_call(s, instrument) ==
  /\ call' = Called("read_drum_map", << s, instrument >>,
                    read_drum_map(x, y, s, instrument))
  /\ UNCHANGED << run, host, x, y, randomness, density, step, pulse, euclidean_step,
                  output_mode, clock_resolution, pulses_per_step,
                  part_perturbation, mode, hist >>

\* The perturbation add of evaluate_drums on its own, for a level read from
\* the drum map and a perturbation held in part_perturbation.
perturb_call ==
  /\ call.op = "perturb_input"
  /\ call' = Called("perturb", call.arg, perturb(call.arg[1], call.arg[2]))
  /\ UNCHANGED << run, host, x, y, randomness, density, step, pulse, euclidean_step,
                  output_mode, clock_resolution, pulses_per_step,
                  part_perturbation, mode, hist >>

(***************************************************************************)
(* get_euclidean_pattern of the single-file script.                        *)
(***************************************************************************)
\* `index = (steps - 1) * 8 + (pulses * 8 // 32)`
get_euclidean_pattern_index(steps, pulses) ==
  ((steps - 1) * 8) + ((pulses * 8) \div 32)

\* What the call does: it raises ValueError on its own test, IndexError
\* when the index is past the table, and otherwise returns the entry at
\* `index` (0-based).
get_euclidean_pattern(steps, pulses) ==
  IF steps < 1 \/ steps > 32 \/ pulses < 0 \/ pulses > 32
    THEN [raised |-> "ValueError", index |-> 0, pattern |-> << 0, 0 >>]
  ELSE IF get_euclidean_pattern_index(steps, pulses)
            >= Len(euclidean_patterns)
    THEN [raised |-> "IndexError",
          index |-> get_euclidean_pattern_index(steps, pulses),
          pattern |-> << 0, 0 >>]
  ELSE [raised |-> "none",
        index |-> get_euclidean_pattern_index(steps, pulses),
        pattern |->
          euclidean_patterns[get_euclidean_pattern_index(steps, pulses) + 1]]

\* A call of get_euclidean_pattern with the arguments given.
get_euclidean_pattern_call ==
  /\ call.op = "get_euclidean_pattern_input"
  /\ call' = Called("get_euclidean_pattern", call.arg,
                    get_euclidean_pattern(call.arg[1], call.arg[2]))
  /\ UNCHANGED << run, host, x, y, randomness, density, step, pulse,
                  euclidean_step, output_mode, clock_resolution,
                  pulses_per_step, part_perturbation, mode, hist >>

(***************************************************************************)
(* main: the driver loop `output = pg.evaluate(); ...; pg.tick_clock()`,    *)
(* run for MaxCycles cycles of 32 steps at the resolution set before it.   *)
(***************************************************************************)
\* The loop's bookkeeping after an evaluation that returned the word w.
run_after(w) ==
  [run EXCEPT !.n = @ + 1,
              !.clocks = @ + Bit(w, OUTPUT_BIT_CLOCK),
              !.resets = @ + Bit(w, OUTPUT_BIT_RESET),
              !.zeros = @ + (IF w = 0 THEN 1 ELSE 0)]

\* `for step in range(32 * pg.pulses_per_step)`, for MaxCycles cycles.
main_range == StepsPerPattern * pulses_per_step * MaxCycles

\* `output = pg.evaluate()`
main_evaluate ==
  /\ run.n = run.ticks
  /\ run.n < main_range
  /\ \E r \in draws_for(evaluate_path) :
       /\ eval_effect(evaluate_path, r)
       /\ call' = Called("evaluate", evaluate_path,
                         eval_word(evaluate_path, r))
       /\ run' = run_after(eval_word(evaluate_path, r))
  /\ UNCHANGED << host, x, y, randomness, density, step, pulse, output_mode,
                  clock_resolution, pulses_per_step, mode >>

\* `pg.tick_clock()`
main_tick_clock ==
  /\ run.n = run.ticks + 1
  /\ pulse' = tick_pulse(pulse, 1, pulses_per_step)
  /\ step' = tick_step(step, pulse, 1, pulses_per_step)
  /\ call' = Called("tick_clock", 1, 0)
  /\ run' = [run EXCEPT !.ticks = @ + 1]
  /\ UNCHANGED << host, x, y, randomness, density, euclidean_step, output_mode,
                  clock_resolution, pulses_per_step, part_perturbation,
                  mode, hist >>

\* `pg.set_clock_resolution(resolution)`, before the loop.
main_set_clock_resolution(resolution) ==
  /\ run = NotRun
  /\ set_clock_resolution(resolution)

(***************************************************************************)
(* Operations of TulipGrids.                                               *)
(***************************************************************************)
set_mode_grids ==
  /\ mode' = "grids"
  /\ output_mode' = "grids"
  /\ call' = Called("set_mode_grids", 0, 0)
  /\ UNCHANGED << run, host, x, y, randomness, density, step, pulse, euclidean_step,
                  clock_resolution, pulses_per_step, part_perturbation,
                  hist >>

\* A switch to Euclidean mode that rewinds the cursors.
set_mode_euclidean_rewinding ==
  /\ mode' = "euclidean"
  /\ output_mode' = "euclidean"
  /\ euclidean_step' = << 0, 0, 0 >>
  /\ call' = Called("set_mode_euclidean", 0, 0)
  /\ UNCHANGED << run, host, x, y, randomness, density, step, pulse,
                  clock_resolution, pulses_per_step, part_perturbation,
                  hist >>

set_mode_euclidean ==
  /\ mode' = "euclidean"
  /\ output_mode' = "euclidean"
  /\ call' = Called("set_mode_euclidean", 0, 0)
  /\ UNCHANGED << run, host, x, y, randomness, density, step, pulse, euclidean_step,
                  clock_resolution, pulses_per_step, part_perturbation,
                  hist >>

\* A start that registers a callback whether or not one is registered.
start_always ==
  /\ \E slot \in SeqSlots :
       /\ seq_slot' = slot
       /\ callbacks' = callbacks \cup {slot}
  /\ call' = Called("start", 0, 0)
  /\ UNCHANGED << engine, mode, hist, run, drum_presets, velocities,
                  pitches, pans >>

\* start: seq_add_callback hands out a slot of the sequencer.
start ==
  /\ IF seq_slot = None
       THEN \E slot \in SeqSlots :
              /\ seq_slot' = slot
              /\ callbacks' = callbacks \cup {slot}
       ELSE UNCHANGED << seq_slot, callbacks >>
  /\ call' = Called("start", 0, 0)
  /\ UNCHANGED << engine, mode, hist, run, drum_presets, velocities,
                  pitches, pans >>

\* What stop does to the slot and to the sequencer.
stop_effect ==
  IF seq_slot # None
    THEN /\ callbacks' = callbacks \ {seq_slot}
         /\ seq_slot' = None
    ELSE UNCHANGED << seq_slot, callbacks >>

stop ==
  /\ stop_effect
  /\ call' = Called("stop", 0, 0)
  /\ UNCHANGED << engine, mode, hist, run, drum_presets, velocities,
                  pitches, pans >>

\* __del__ calls stop().
del ==
  /\ stop_effect
  /\ call' = Called("__del__", 0, 0)
  /\ UNCHANGED << engine, mode, hist, run, drum_presets, velocities,
                  pitches, pans >>

\* A callback that ticks the clock before it evaluates.
sequencer_callback_tick_first ==
  LET p2 == tick_pulse(pulse, 1, pulses_per_step)
      s2 == tick_step(step, pulse, 1, pulses_per_step)
      path == IF mode # "grids" \/ (p2 = 0 /\ output_mode # "grids")
                THEN "evaluate_euclidean"
              ELSE IF p2 = 0 THEN "evaluate_drums"
              ELSE "none"
  IN  /\ pulse' = p2
      /\ step' = s2
      /\ \E r \in RandomDraws :
           /\ part_perturbation' =
                IF path = "evaluate_drums"
                  THEN roll_perturbation(s2, randomness, part_perturbation, r)
                  ELSE part_perturbation
           /\ call' =
                Called("sequencer_callback", path,
                       IF path = "evaluate_drums"
                         THEN drums_word(x, y, density, s2,
                                roll_perturbation(s2, randomness,
                                                  part_perturbation, r))
                       ELSE IF path = "evaluate_euclidean"
                         THEN euclidean_word(density, euclidean_step)
                       ELSE 0)
      /\ euclidean_step' =
           IF path = "evaluate_euclidean"
             THEN euclidean_advance(euclidean_step)
             ELSE euclidean_step
      /\ hist' =
           IF path = "evaluate_euclidean"
             THEN hist_after(euclidean_word(density, euclidean_step))
             ELSE hist
      /\ UNCHANGED << run, host, x, y, randomness, density, output_mode,
                      clock_resolution, pulses_per_step, mode >>

\* One sequencer callback: the evaluation, then tick_clock().  The note_on
\* calls go to the synth and change nothing here.
sequencer_callback ==
  /\ \E r \in draws_for(callback_path) :
       /\ eval_effect(callback_path, r)
       /\ call' = Called("sequencer_callback", callback_path,
                         eval_word(callback_path, r))
  /\ pulse' = tick_pulse(pulse, 1, pulses_per_step)
  /\ step' = tick_step(step, pulse, 1, pulses_per_step)
  /\ UNCHANGED << run, host, x, y, randomness, density, output_mode, clock_resolution,
                  pulses_per_step, mode >>

set_x(value) ==
  /\ x' = value
  /\ call' = Called("set_x", value, 0)
  /\ UNCHANGED << run, host, y, randomness, density, step, pulse, euclidean_step,
                  output_mode, clock_resolution, pulses_per_step,
                  part_perturbation, mode, hist >>

set_y(value) ==
  /\ y' = value
  /\ call' = Called("set_y", value, 0)
  /\ UNCHANGED << run, host, x, randomness, density, step, pulse, euclidean_step,
                  output_mode, clock_resolution, pulses_per_step,
                  part_perturbation, mode, hist >>

\* What storing `value` in an array("B") does: a byte is stored; any other
\* integer raises OverflowError under CPython and is stored without its
\* high bits under MicroPython, which makes no overflow check on array
\* items.
array_B_store(value) ==
  IF value \in 0 .. 255 THEN {"stored"} ELSE {"OverflowError", "truncated"}

\* A store that keeps the integer it is given.
set_density_unchecked(channel, value) ==
  /\ density' = [density EXCEPT ![channel + 1] = value]
  /\ hist' = << >>
  /\ call' = Called("set_density", << channel, value >>, 0)
  /\ UNCHANGED << run, host, x, y, randomness, step, pulse, euclidean_step,
                  output_mode, clock_resolution, pulses_per_step,
                  part_perturbation, mode >>

set_density(channel, value) ==
  /\ \E outcome \in array_B_store(value) :
       IF outcome = "OverflowError"
         THEN /\ call' = Called("set_density: OverflowError",
                                << channel, value >>, 0)
              /\ UNCHANGED << density, hist >>
         ELSE /\ density' = [density EXCEPT ![channel + 1] = value % 256]
              /\ hist' = << >>
              /\ call' = Called("set_density", << channel, value >>, 0)
  /\ UNCHANGED << run, host, x, y, randomness, step, pulse, euclidean_step,
                  output_mode, clock_resolution, pulses_per_step,
                  part_perturbation, mode >>

set_chaos(value) ==
  /\ randomness' = value
  /\ call' = Called("set_chaos", value, 0)
  /\ UNCHANGED << run, host, x, y, density, step, pulse, euclidean_step, output_mode,
                  clock_resolution, pulses_per_step, part_perturbation,
                  mode, hist >>

(***************************************************************************)
(* TulipGrids: the voice setters.                                          *)
(***************************************************************************)
\* `0 <= channel < 3`
valid_channel(channel) == 0 <= channel /\ channel < NumChannels

\* `0 <= preset < len(drumkit)`
valid_preset(preset) == 0 <= preset /\ preset < DrumkitLen

\* A test of the level that has no upper limit.
valid_level_unbounded(level) == 0 <= level

\* `0 <= velocity <= 1`, and the same for pitch and pan.
valid_level(level) == 0 <= level /\ level <= One

set_preset(channel, preset) ==
  /\ drum_presets' =
       IF valid_channel(channel) /\ valid_preset(preset)
         THEN [drum_presets EXCEPT ![channel + 1] = preset]
         ELSE drum_presets
  /\ call' = Called("set_preset", << channel, preset >>, 0)
  /\ UNCHANGED << engine, mode, hist, run, velocities, pitches, pans,
                  seq_slot, callbacks >>

set_velocity(channel, velocity) ==
  /\ velocities' =
       IF valid_channel(channel) /\ valid_level(velocity)
         THEN [velocities EXCEPT ![channel + 1] = velocity]
         ELSE velocities
  /\ call' = Called("set_velocity", << channel, velocity >>, 0)
  /\ UNCHANGED << engine, mode, hist, run, drum_presets, pitches, pans,
                  seq_slot, callbacks >>

set_pitch(channel, pitch) ==
  /\ pitches' =
       IF valid_channel(channel) /\ valid_level(pitch)
         THEN [pitches EXCEPT ![channel + 1] = pitch]
         ELSE pitches
  /\ call' = Called("set_pitch", << channel, pitch >>, 0)
  /\ UNCHANGED << engine, mode, hist, run, drum_presets, velocities, pans,
                  seq_slot, callbacks >>

set_pan(channel, pan) ==
  /\ pans' =
       IF valid_channel(channel) /\ valid_level(pan)
         THEN [pans EXCEPT ![channel + 1] = pan]
         ELSE pans
  /\ call' = Called("set_pan", << channel, pan >>, 0)
  /\ UNCHANGED << engine, mode, hist, run, drum_presets, velocities,
                  pitches, seq_slot, callbacks >>

(***************************************************************************)
(* GridsGUI._mode_cb: the mode switch writes the engine's mode only.        *)
(***************************************************************************)
mode_cb(checked) ==
  /\ output_mode' = IF checked THEN "euclidean" ELSE "grids"
  /\ call' = Called("_mode_cb", checked, 0)
  /\ UNCHANGED << run, host, x, y, randomness, density, step, pulse, euclidean_step,
                  clock_resolution, pulses_per_step, part_perturbation,
                  mode, hist >>

(***************************************************************************)
(* Specifications.                                                         *)
(***************************************************************************)
\* The host driver: sequencer callbacks, direct evaluations and ticks as in
\* grids.main, mode changes from the API and from the GUI switch, and
\* resolution changes, on an engine with the constructor's parameters.
Next ==
  \/ sequencer_callback
  \/ evaluate
  \/ tick_clock(1)
  \/ set_mode_grids
  \/ set_mode_euclidean
  \/ \E checked \in BOOLEAN : mode_cb(checked)
  \/ \E resolution \in Resolutions : set_clock_resolution(resolution)

Spec == Init /\ [][Next]_vars

\* The clock divider alone: ticks of 1..MaxTick pulses, resolution changes
\* and evaluations in between.
NextClock ==
  \/ \E n \in 1 .. MaxTick : tick_clock(n)
  \/ \E resolution \in Resolutions : set_clock_resolution(resolution)
  \/ evaluate

SpecClock == Init /\ [][NextClock]_vars

\* The interpolator alone: read_drum_map at every step and instrument, for
\* coordinates set through set_x and set_y.
NextInterp ==
  \/ \E s \in 0 .. (StepsPerPattern - 1), i \in Channels :
       read_drum_map_call(s, i)
  \/ \E v \in InterpCoordinates : set_x(v)
  \/ \E v \in InterpCoordinates : set_y(v)

SpecInterp == Init /\ [][NextInterp]_vars

\* The perturbation add alone, applied to every pair of unsigned bytes: a
\* level and a perturbation are given, and the add is made once.
InitPerturb ==
  /\ Constructed
  /\ \E level \in 0 .. 255, p \in 0 .. 255 :
       call = Called("perturb_input", << level, p >>, 0)

NextPerturb == perturb_call

SpecPerturb == InitPerturb /\ [][NextPerturb]_vars

\* main on its own: the resolution is set, then the loop runs; the chaos
\* knob may be turned at any pulse.
NextRun ==
  \/ \E resolution \in Resolutions : main_set_clock_resolution(resolution)
  \/ main_evaluate
  \/ main_tick_clock
  \/ \E v \in ChaosValues : set_chaos(v)

SpecRun == Init /\ [][NextRun]_vars

\* Grid mode: the driver loop of grids.main (evaluate, then tick_clock), with
\* the parameter setters called in between.
NextGrid ==
  \/ evaluate
  \/ tick_clock(1)
  \/ \E v \in GridXValues : set_x(v)
  \/ \E v \in GridYValues : set_y(v)
  \/ \E c \in Channels, v \in GridDensities : set_density(c, v)
  \/ \E v \in ChaosValues : set_chaos(v)

SpecGrid == Init /\ [][NextGrid]_vars

\* Both evaluations under the clock: evaluate and tick_clock with the GUI's
\* mode switch, the chaos knob and resolution changes in between, so that
\* the step, the pulse, the cursors and the perturbations all take values
\* other than the constructor's.
NextFrame ==
  \/ evaluate
  \/ tick_clock(1)
  \/ \E checked \in BOOLEAN : mode_cb(checked)
  \/ \E v \in ChaosValues : set_chaos(v)
  \/ \E resolution \in Resolutions : set_clock_resolution(resolution)

SpecFrame == Init /\ [][NextFrame]_vars

\* Grid mode with the chaos knob at 0 since construction: the driver loop
\* and the setters of NextGrid, with set_chaos called with 0 only.
NextNoChaos ==
  \/ evaluate
  \/ tick_clock(1)
  \/ \E v \in GridXValues : set_x(v)
  \/ \E v \in GridYValues : set_y(v)
  \/ \E c \in Channels, v \in GridDensities : set_density(c, v)
  \/ set_chaos(0)

SpecNoChaos == Init /\ [][NextNoChaos]_vars

\* One grid evaluation at any step of the cycle, on an engine whose
\* coordinates and densities were set through the setters, whose step was
\* reached by ticks and whose perturbations were drawn at the last cycle
\* start with the randomness it has.
InitTrigger ==
  /\ x \in GridXValues
  /\ y \in GridYValues
  /\ density \in TriggerDensities
  /\ step \in 0 .. (StepsPerPattern - 1)
  /\ randomness \in ChaosValues
  /\ \E r \in RandomDraws :
       part_perturbation
         = roll_perturbation(0, randomness, << 0, 0, 0 >>, r)
  /\ pulse = 0
  /\ euclidean_step = << 0, 0, 0 >>
  /\ output_mode = "grids"
  /\ clock_resolution = CLOCK_RESOLUTION_24_PPQN
  /\ pulses_per_step = 3
  /\ mode = "grids"
  /\ hist = << >>
  /\ run = NotRun
  /\ HostConstructed
  /\ call = Called("tick_clock", 1, 0)

NextTrigger ==
  /\ call.op = "tick_clock"
  /\ evaluate

SpecTrigger == InitTrigger /\ [][NextTrigger]_vars

\* The voice setters alone, called with valid and invalid channels and
\* values.
NextVoices ==
  \/ \E c \in HostChannels, v \in PresetValues : set_preset(c, v)
  \/ \E c \in HostChannels, v \in LevelValues : set_velocity(c, v)
  \/ \E c \in HostChannels, v \in LevelValues : set_pitch(c, v)
  \/ \E c \in HostChannels, v \in LevelValues : set_pan(c, v)

SpecVoices == Init /\ [][NextVoices]_vars

\* The object under the sequencer: start and stop in any order, the
\* sequencer calling the callback on every pulse while one is registered,
\* and the mode set in between.
registered_callback ==
  /\ callbacks # {}
  /\ sequencer_callback

NextSequencer ==
  \/ start
  \/ stop
  \/ del
  \/ registered_callback
  \/ set_mode_grids
  \/ set_mode_euclidean

SpecSequencer == Init /\ [][NextSequencer]_vars

\* get_euclidean_pattern alone, applied once to every pair of arguments.
InitLookup ==
  /\ Constructed
  /\ \E steps \in LookupSteps, pulses \in LookupPulses :
       call = Called("get_euclidean_pattern_input", << steps, pulses >>, 0)

NextLookup == get_euclidean_pattern_call

SpecLookup == InitLookup /\ [][NextLookup]_vars

\* The parameter setters alone, called with bytes and with integers that
\* are not bytes.
NextSetters ==
  \/ \E v \in SetterValues : set_x(v)
  \/ \E v \in SetterValues : set_y(v)
  \/ \E c \in Channels, v \in SetterValues : set_density(c, v)
  \/ \E v \in SetterValues : set_chaos(v)

SpecSetters == Init /\ [][NextSetters]_vars

\* Euclidean evaluation alone, with set_density called in between, with
\* bytes and with integers that are not bytes.
NextEuclidean ==
  \/ evaluate_euclidean
  \/ \E c \in Channels, v \in EuclideanDensities \cup OutOfRangeValues :
       set_density(c, v)

SpecEuclidean == Init /\ [][NextEuclidean]_vars

\* One change of the clock resolution away from the constructor's 24 PPQN,
\* made at any pulse, under a driver that keeps calling back: the sequencer
\* calls the callback on every pulse for as long as it is registered.
NextLive ==
  \/ sequencer_callback
  \/ /\ clock_resolution = CLOCK_RESOLUTION_24_PPQN
     /\ \E resolution \in Resolutions \ {CLOCK_RESOLUTION_24_PPQN} :
          set_clock_resolution(resolution)

SpecLive == Init /\ [][NextLive]_vars /\ WF_vars(sequencer_callback)

(***************************************************************************)
(* The clock divider.                                                      *)
(***************************************************************************)
\* C1: after every call tick_clock(n), in any reachable state, the pulse
\* counter lies within the step: 0 <= pulse < pulses_per_step.
C1_PulseWithinStep ==
  call.op = "tick_clock" => (0 <= pulse /\ pulse < pulses_per_step)

\* C2: from a state with 0 <= pulse < pulses_per_step, tick_clock(n) rolls
\* over as many step boundaries as n covers: it leaves
\* pulse' = (pulse + n) mod pulses_per_step and
\* step' = (step + (pulse + n) div pulses_per_step) mod 32.
C2_TickRollsOverEveryBoundary ==
  [][(call'.op = "tick_clock" /\ 0 <= pulse /\ pulse < pulses_per_step)
       => /\ pulse' = (pulse + call'.arg) % pulses_per_step
          /\ step' = (step + ((pulse + call'.arg) \div pulses_per_step))
                       % StepsPerPattern]_vars

(***************************************************************************)
(* The dispatch of evaluate.                                               *)
(***************************************************************************)
\* C3: evaluate() returns 0 and changes no engine state whenever pulse is
\* not 0; when pulse is 0 it returns the word of evaluate_drums if
\* output_mode is "grids" and the word of evaluate_euclidean otherwise,
\* with that evaluation's state change.
C3_EvaluateDispatch ==
  [][call'.op = "evaluate" =>
       /\ pulse # 0 => (call'.ret = 0 /\ engine' = engine)
       /\ (pulse = 0 /\ output_mode = "grids") =>
            /\ call'.ret = drums_word(x, y, density, step, part_perturbation')
            /\ \/ step # 0 /\ part_perturbation' = part_perturbation
               \/ /\ step = 0
                  /\ \A c \in Channels : \E b \in RandomBytes :
                       part_perturbation'[c + 1] = (b * randomness) \div 256
            /\ euclidean_step' = euclidean_step
       /\ (pulse = 0 /\ output_mode # "grids") =>
            /\ call'.ret = euclidean_word(density, euclidean_step)
            /\ euclidean_step' = euclidean_advance(euclidean_step)
            /\ part_perturbation' = part_perturbation]_vars

\* evaluate was called between step boundaries and returned no event.
C3_Witness ==
  /\ call.op = "evaluate"
  /\ pulse # 0
  /\ output_mode = "euclidean"
  /\ euclidean_step # << 0, 0, 0 >>
  /\ call.ret = 0

\* C4: with TulipGrids in Euclidean mode, a sequencer callback produces
\* Euclidean triggers and advances the Euclidean cursors only on pulses
\* where pulse is 0, once per step, as grid mode does.
C4_EuclideanOnStepCadence ==
  [][(call'.op = "sequencer_callback" /\ mode = "euclidean" /\ pulse # 0)
       => (call'.ret = 0 /\ euclidean_step' = euclidean_step)]_vars

(***************************************************************************)
(* The interpolator at the corners of the map.                             *)
(***************************************************************************)
\* The raw byte of node drum_map[i][j] for a step and an instrument.
node_byte(i, j, s, instrument) ==
  drum_map[i + 1][j + 1][(instrument * 32) + s + 1]

\* C5 (as stated): for every step and instrument, read_drum_map with x = 0,
\* y = 0 returns exactly the raw byte of node drum_map[0][0], and with
\* x = 255, y = 255 exactly the raw byte of node drum_map[4][4].
C5_BoundaryExact ==
  call.op = "read_drum_map" =>
    /\ (x = 0 /\ y = 0) =>
         call.ret = node_byte(0, 0, call.arg[1], call.arg[2])
    /\ (x = 255 /\ y = 255) =>
         call.ret = node_byte(4, 4, call.arg[1], call.arg[2])

\* C5 (amended): with x = 0, y = 0 read_drum_map depends on node
\* drum_map[0][0] alone and returns its raw byte less the loss of the two
\* truncating mixes, max(raw - 2, 0); with x = 255, y = 255 it returns the
\* truncated blend, with both balances 252, of the bytes of nodes
\* drum_map[3][3], [4][3], [3][4] and [4][4], which is the byte of
\* drum_map[4][4] only up to that blend.
C5_BoundaryTruncated ==
  call.op = "read_drum_map" =>
    LET s == call.arg[1]
        i == call.arg[2]
        raw == node_byte(0, 0, s, i)
        top == ((node_byte(4, 3, s, i) * 252) + (node_byte(3, 3, s, i) * 3))
                 \div 256
        bottom == ((node_byte(4, 4, s, i) * 252) + (node_byte(3, 4, s, i) * 3))
                    \div 256
    IN  /\ (x = 0 /\ y = 0) =>
             call.ret = (IF raw >= 2 THEN raw - 2 ELSE 0)
        /\ (x = 255 /\ y = 255) =>
             call.ret = ((bottom * 252) + (top * 3)) \div 256

\* read_drum_map was called at the far corner on a byte that is 255 in
\* node drum_map[4][4], and returned less.
C5_Witness ==
  /\ call.op = "read_drum_map"
  /\ x = 255
  /\ y = 255
  /\ node_byte(4, 4, call.arg[1], call.arg[2]) = 255
  /\ call.ret < 255

(***************************************************************************)
(* Euclidean evaluation.                                                   *)
(***************************************************************************)
\* The mask the claims name for a density d: entry (d >> 5) of the table.
mask_of(d) == euclidean_patterns[(d \div 32) + 1]

\* C6: with density[c] fixed, a Euclidean evaluation made with cursor
\* euclidean_step[c] = k returns trigger bit c equal to bit k of the mask
\* euclidean_patterns[density[c] >> 5] and moves the cursor to
\* (k + 1) mod 32; so 32 consecutive evaluations starting from cursor 0
\* reproduce the mask from bit 0 upward and leave the cursor back at 0.
C6_EuclideanPeriodicity ==
  /\ [][call'.op = "evaluate_euclidean" =>
          \A c \in Channels :
            /\ Bit(call'.ret, c)
                 = MaskBit(mask_of(density[c + 1]), euclidean_step[c + 1])
            /\ euclidean_step'[c + 1]
                 = (euclidean_step[c + 1] + 1) % 32]_vars
  /\ [](Len(hist) = 32 =>
          /\ euclidean_step = << 0, 0, 0 >>
          /\ \A c \in Channels : \A k \in 0 .. 31 :
               Bit(hist[k + 1], c) = MaskBit(mask_of(density[c + 1]), k))

\* 32 consecutive evaluations were made from cursor 0 with three different
\* masks, one of them with bit 31 set.
C6_Witness ==
  /\ call.op = "evaluate_euclidean"
  /\ Len(hist) = 32
  /\ density = << 32, 128, 255 >>
  /\ Bit(hist[32], 1) = 1

\* C7: the Euclidean lookup reads the bucket of the channel's pattern
\* length: with the table laid out as 32 buckets of 8 entries, the index
\* used for length L = (density[c] >> 5) + 1 lies in 8*(L-1) .. 8*(L-1)+7,
\* and its sub-index within the bucket is the same for every density.
C7_LookupInLengthBucket ==
  call.op = "evaluate_euclidean" =>
    /\ \A c \in Channels :
         LET L == (density[c + 1] \div 32) + 1
         IN  euclidean_index(density[c + 1])
               \in (8 * (L - 1)) .. ((8 * (L - 1)) + 7)
    /\ \A c, d \in Channels :
         euclidean_index(density[c + 1]) % 8
           = euclidean_index(density[d + 1]) % 8

(***************************************************************************)
(* A change of resolution under a running driver.                          *)
(***************************************************************************)
\* C8: a change of the clock resolution mid-cycle misaligns the clock only
\* for a while: once set_clock_resolution was called, with the driver
\* evaluating and ticking one pulse per callback, pulse eventually returns
\* to 0, so that evaluate produces step events again.
C8_PulseReturnsToZero ==
  (call.op = "set_clock_resolution") ~> (pulse = 0)

(***************************************************************************)
(* Grid evaluation.                                                        *)
(***************************************************************************)
\* The level of channel c at the current x, y and step when the
\* perturbation added is p, and the bits it gives against density[c].
level_with(c, p) ==
  LET level == read_drum_map(x, y, step, c)
  IN  IF level < 255 - p THEN level + p ELSE 255

bits_agree(w, c, p) ==
  /\ (Bit(w, c) = 1) <=> (level_with(c, p) > 255 - density[c + 1])
  /\ (Bit(w, c + 3) = 1) <=> /\ level_with(c, p) > 255 - density[c + 1]
                            /\ level_with(c, p) > 192

\* C9 (as stated): the word returned by a step-boundary evaluate() in grid
\* mode is computed from the current values of x, y, density and randomness
\* (with the current step and a random draw), never from a value a
\* parameter held before the last setter call: for each channel, its
\* trigger and accent bits are those of some draw scaled by the current
\* randomness.
C9_WordFromCurrentParameters ==
  [][(call'.op = "evaluate" /\ call'.arg = "evaluate_drums") =>
       \A c \in Channels : \E b \in 0 .. 255 :
         bits_agree(call'.ret, c, (b * randomness) \div 256)]_vars

\* C9 (amended): x, y and density take effect on the next evaluate(): the
\* word returned by a step-boundary evaluate() in grid mode is computed
\* from their current values, the current step and the perturbation in
\* part_perturbation.  randomness takes effect only at the next evaluation
\* made at step 0, which re-draws part_perturbation from it; at any other
\* step the evaluation keeps the perturbation drawn with the randomness of
\* the last cycle start.
C9_WordFromCurrentXYDensity ==
  [][(call'.op = "evaluate" /\ call'.arg = "evaluate_drums") =>
       /\ \A c \in Channels :
            bits_agree(call'.ret, c, part_perturbation'[c + 1])
       /\ step # 0 => part_perturbation' = part_perturbation
       /\ step = 0 =>
            \A c \in Channels : \E b \in 0 .. 255 :
              part_perturbation'[c + 1] = (b * randomness) \div 256]_vars

\* evaluate ran in the middle of a cycle after set_x, set_y and set_density
\* were called, and after set_chaos(0) was called on a perturbation drawn
\* with randomness 255.
C9_Witness ==
  /\ call.op = "evaluate"
  /\ call.arg = "evaluate_drums"
  /\ step # 0
  /\ x = 0
  /\ y = 255
  /\ density = << 255, 128, 255 >>
  /\ randomness = 0
  /\ part_perturbation = << 99, 0, 99 >>

\* C10: every word returned by evaluate_drums has bit 6 (clock) set, and
\* has bit 7 (reset) set if and only if step is 0 at the evaluation.
C10_ClockAndResetBits ==
  (call.op = "evaluate" /\ call.arg = "evaluate_drums") =>
    /\ Bit(call.ret, 6) = 1
    /\ (Bit(call.ret, 7) = 1) <=> (step = 0)

\* evaluate_drums ran at step 0 with a perturbation drawn and set the reset
\* bit.
C10_Witness ==
  /\ call.op = "evaluate"
  /\ call.arg = "evaluate_drums"
  /\ step = 0
  /\ Bit(call.ret, 7) = 1
  /\ part_perturbation # << 0, 0, 0 >>

\* C11: in the word returned by evaluate_drums, trigger bit c is set iff
\* the perturbed level of channel c is strictly greater than
\* 255 - density[c], and accent bit c + 3 is set iff trigger bit c is set
\* and that level is strictly greater than 192; an accent bit is never set
\* without its trigger bit.
C11_TriggerAndAccentBits ==
  (call.op = "evaluate" /\ call.arg = "evaluate_drums") =>
    \A c \in Channels :
      LET raw == read_drum_map(x, y, step, c)
          sum == raw + part_perturbation[c + 1]
          level == IF sum > 255 THEN 255 ELSE sum
      IN  /\ (Bit(call.ret, c) = 1) <=> (level > 255 - density[c + 1])
          /\ (Bit(call.ret, c + 3) = 1) <=>
               (Bit(call.ret, c) = 1 /\ level > 192)
          /\ (Bit(call.ret, c + 3) = 1) => (Bit(call.ret, c) = 1)

\* evaluate_drums returned a word with an accented trigger, a trigger
\* without accent and a channel that stays silent.
C11_Witness ==
  /\ call.op = "evaluate"
  /\ call.arg = "evaluate_drums"
  /\ \E a, b, c \in Channels :
       /\ Bit(call.ret, a) = 1 /\ Bit(call.ret, a + 3) = 1
       /\ Bit(call.ret, b) = 1 /\ Bit(call.ret, b + 3) = 0
       /\ Bit(call.ret, c) = 0 /\ Bit(call.ret, c + 3) = 0

(***************************************************************************)
(* The perturbation add.                                                   *)
(***************************************************************************)
\* C12: the perturbation add saturates and never wraps: for every level in
\* 0..255 and perturbation in 0..255 the level used for thresholding is
\* min(255, level + perturbation).
C12_PerturbationSaturates ==
  call.op = "perturb" =>
    LET sum == call.arg[1] + call.arg[2]
    IN  /\ call.ret = (IF sum < 255 THEN sum ELSE 255)
        /\ call.ret >= call.arg[1]
        /\ call.ret <= 255

\* Level 250 with perturbation 10 gave 255.
C12_Witness ==
  /\ call.op = "perturb"
  /\ call.arg = << 250, 10 >>
  /\ call.ret = 255

(***************************************************************************)
(* The driver loop of main over whole cycles.                              *)
(***************************************************************************)
\* C13: a freshly constructed engine at 24 PPQN (3 pulses per step), driven
\* with evaluate then tick_clock(1), returns a word with the clock bit on
\* every 3rd pulse starting with the first and 0 on the others; over the 96
\* pulses of one cycle that is 32 words with the clock bit and 64 words
\* equal to 0, and exactly 1 of the 32 has the reset bit as well.
C13_EndToEndGridCycle ==
  pulses_per_step = 3 =>
    /\ call.op = "evaluate" =>
         /\ IF (run.n - 1) % 3 = 0
              THEN Bit(call.ret, OUTPUT_BIT_CLOCK) = 1
              ELSE call.ret = 0
         /\ Bit(call.ret, OUTPUT_BIT_RESET) = 1 =>
              Bit(call.ret, OUTPUT_BIT_CLOCK) = 1
    /\ run.n = 96 =>
         /\ run.clocks = 32
         /\ run.zeros = 64
         /\ run.resets = 1

\* The 96th evaluation of a run at 24 PPQN has been made.
C13_Witness ==
  /\ call.op = "evaluate"
  /\ pulses_per_step = 3
  /\ run.n = 96
  /\ run.clocks = 32
  /\ run.resets = 1

\* C14: from step 0 and pulse 0, at a fixed number p of pulses per step,
\* after n calls of tick_clock(1) the step is (n div p) mod 32 and the pulse
\* is n mod p: the step advances by one every p calls, and after 32 * p
\* calls the engine is back at step 0 and pulse 0.
C14_ClockDividerCycle ==
  /\ step = (run.ticks \div pulses_per_step) % StepsPerPattern
  /\ pulse = run.ticks % pulses_per_step
  /\ run.ticks = StepsPerPattern * pulses_per_step => step = 0 /\ pulse = 0

\* The 96th tick at 24 PPQN has brought the engine back to step 0, pulse 0.
C14_Witness ==
  /\ call.op = "tick_clock"
  /\ pulses_per_step = 3
  /\ run.ticks = 96
  /\ step = 0
  /\ pulse = 0

\* C17: in the driver loop, part_perturbation is drawn anew, for all three
\* channels in one evaluation and from the current randomness, at the first
\* evaluation of every 32-step cycle, which is the one made at step 0; every
\* other evaluation and every tick leaves it as it was.
C17_RerollOncePerCycle ==
  [][ IF call'.op = "evaluate"
           /\ run.n % (StepsPerPattern * pulses_per_step) = 0
        THEN /\ step = 0
             /\ \E r \in RandomDraws :
                  part_perturbation' =
                    [c \in 1 .. NumChannels |-> (r[c] * randomness) \div 256]
        ELSE /\ part_perturbation' = part_perturbation
             /\ call'.op = "evaluate" => step # 0 \/ pulse # 0 ]_vars

\* The second cycle has begun with a new draw that differs between channels,
\* after a first cycle that began with another.
C17_Witness ==
  /\ call.op = "evaluate"
  /\ run.n = StepsPerPattern * pulses_per_step + 1
  /\ randomness = 255
  /\ part_perturbation = << 99, 0, 99 >>

(***************************************************************************)
(* Frames of the mode switches, of set_clock_resolution and of the         *)
(* evaluations.                                                            *)
(***************************************************************************)
\* C15: a switch of the output mode, by set_mode_grids, by
\* set_mode_euclidean or by the GUI switch (which assigns output_mode),
\* leaves step, pulse and euclidean_step unchanged; the cursors move only in
\* a Euclidean evaluation, and a Euclidean evaluation returns the word read
\* at the cursors as they stand, so the first one after a switch continues
\* where the last one stopped, and from 0 if there was none.
C15_ModeSwitchKeepsPositions ==
  [][ /\ call'.op \in {"set_mode_grids", "set_mode_euclidean", "_mode_cb"} =>
           /\ step' = step
           /\ pulse' = pulse
           /\ euclidean_step' = euclidean_step
      /\ euclidean_step' # euclidean_step =>
           /\ call'.op \in {"evaluate", "sequencer_callback"}
           /\ call'.arg = "evaluate_euclidean"
      /\ ( /\ call'.op \in {"evaluate", "sequencer_callback"}
           /\ call'.arg = "evaluate_euclidean" ) =>
           call'.ret = euclidean_word(density, euclidean_step) ]_vars

\* A switch to Euclidean mode has been made in the middle of a step, with
\* the step counter and the cursors away from 0.
C15_Witness ==
  /\ call.op = "set_mode_euclidean"
  /\ step # 0
  /\ pulse # 0
  /\ euclidean_step # << 0, 0, 0 >>

\* C16: set_clock_resolution sets pulses_per_step to 1 for 4 PPQN, to 2 for
\* 8 PPQN and to 3 for 24 PPQN, and leaves pulse, step, euclidean_step and
\* part_perturbation as they were.
C16_SetClockResolutionFrame ==
  [][ call'.op = "set_clock_resolution" =>
        /\ call'.arg = CLOCK_RESOLUTION_4_PPQN => pulses_per_step' = 1
        /\ call'.arg = CLOCK_RESOLUTION_8_PPQN => pulses_per_step' = 2
        /\ call'.arg = CLOCK_RESOLUTION_24_PPQN => pulses_per_step' = 3
        /\ pulse' = pulse
        /\ step' = step
        /\ euclidean_step' = euclidean_step
        /\ part_perturbation' = part_perturbation ]_vars

\* The resolution has been set to 8 PPQN at the third pulse of a step, with
\* the step, the cursors and the perturbations away from the constructor's.
C16_Witness ==
  /\ call.op = "set_clock_resolution"
  /\ call.arg = CLOCK_RESOLUTION_8_PPQN
  /\ pulses_per_step = 2
  /\ pulse = 2
  /\ step # 0
  /\ euclidean_step # << 0, 0, 0 >>
  /\ part_perturbation # << 0, 0, 0 >>

\* C19: an evaluation changes neither step, pulse, x, y, density,
\* randomness, output_mode nor pulses_per_step; evaluate_drums changes
\* nothing but part_perturbation, and that only at step 0;
\* evaluate_euclidean changes nothing but euclidean_step.
C19_EvaluationFrame ==
  [][ call'.op = "evaluate" =>
        /\ UNCHANGED << x, y, density, randomness, step, pulse, output_mode,
                        clock_resolution, pulses_per_step >>
        /\ call'.arg = "evaluate_drums" =>
             /\ euclidean_step' = euclidean_step
             /\ step # 0 => part_perturbation' = part_perturbation
        /\ call'.arg = "evaluate_euclidean" =>
             part_perturbation' = part_perturbation
        /\ call'.arg = "none" =>
             /\ euclidean_step' = euclidean_step
             /\ part_perturbation' = part_perturbation ]_vars

\* evaluate_drums has run past step 0 with perturbations in place and the
\* cursors away from 0.
C19_Witness ==
  /\ call.op = "evaluate"
  /\ call.arg = "evaluate_drums"
  /\ step # 0
  /\ part_perturbation # << 0, 0, 0 >>
  /\ euclidean_step # << 0, 0, 0 >>

(***************************************************************************)
(* Grid mode without chaos.                                                *)
(***************************************************************************)
\* C18: while randomness has been 0 since construction, part_perturbation
\* is << 0, 0, 0 >> in every state, and what an evaluation returns and
\* leaves behind does not depend on the bytes drawn: whatever the draw, the
\* word is the one computed from x, y, density and step with no
\* perturbation, so two engines given the same operations return the same
\* words.
C18_NoChaosIsDeterministic ==
  [][ /\ randomness' = 0
      /\ part_perturbation' = << 0, 0, 0 >>
      /\ call'.op = "evaluate" =>
           /\ \A b \in 0 .. 255 : (b * randomness) \div 256 = 0
           /\ \A r \in RandomDraws :
                /\ eval_word(evaluate_path, r) = call'.ret
                /\ roll_perturbation(step, randomness, part_perturbation, r)
                     = part_perturbation'
           /\ call'.ret =
                IF pulse = 0
                  THEN drums_word(x, y, density, step, << 0, 0, 0 >>)
                  ELSE 0 ]_vars

\* An evaluation at step 0, where the bytes are drawn, has returned a word
\* with triggers after the parameters were set.
C18_Witness ==
  /\ call.op = "evaluate"
  /\ call.arg = "evaluate_drums"
  /\ step = 0
  /\ randomness = 0
  /\ x = 0
  /\ density = << 255, 128, 255 >>
  /\ Bit(call.ret, 0) = 1
  /\ Bit(call.ret, 1) = 0

(***************************************************************************)
(* The interpolator as a function.                                         *)
(***************************************************************************)
\* C20: read_drum_map(step, instrument) changes nothing in the engine; what
\* it returns is determined by x, y, step and instrument, which the call
\* leaves as they were, so a repeated call returns the same value; and the
\* value is in 0 .. 255, for every x and every y in 0 .. 255.
C20_ReadDrumMapIsPure ==
  /\ [][ call'.op = "read_drum_map" =>
           /\ engine' = engine
           /\ call'.ret = read_drum_map(x', y', call'.arg[1], call'.arg[2])
           /\ call'.ret \in 0 .. 255 ]_vars
  /\ [](call.op = "read_drum_map" =>
          \A v \in 0 .. 255 :
            /\ read_drum_map(v, y, call.arg[1], call.arg[2]) \in 0 .. 255
            /\ read_drum_map(x, v, call.arg[1], call.arg[2]) \in 0 .. 255)

\* read_drum_map has returned a level above 200 for a point inside a cell
\* of the map.
C20_Witness ==
  /\ call.op = "read_drum_map"
  /\ x = 200
  /\ y = 63
  /\ call.ret > 200

(***************************************************************************)
(* Ranges of the engine's fields.                                          *)
(***************************************************************************)
\* C21: in every reachable state and for every channel the pattern length
\* that evaluate_euclidean computes, (density[c] >> 5) + 1, is in 1 .. 8,
\* as it is for every byte; a lookup with a length outside 1 .. 8 is never
\* made, whatever integers set_density was called with.
C21_EuclideanLengthInRange ==
  /\ \A c \in Channels :
       /\ density[c + 1] \in 0 .. 255
       /\ euclidean_length(density[c + 1]) \in 1 .. 8
  /\ \A d \in 0 .. 255 : euclidean_length(d) \in 1 .. 8

\* A Euclidean evaluation was made with the lengths 1 and 8 and with the
\* length of a density that set_density was given as 300.
C21_Witness ==
  /\ call.op = "evaluate_euclidean"
  /\ density = << 0, 44, 255 >>
  /\ euclidean_length(density[1]) = 1
  /\ euclidean_length(density[3]) = 8

\* C22: set_x, set_y, set_density and set_chaos called with a value outside
\* 0 .. 255 fail, so a call that has returned was given a byte, and x, y,
\* randomness and every density[c] are bytes in every reachable state.
C22_SettersRejectOutOfRange ==
  /\ x \in 0 .. 255
  /\ y \in 0 .. 255
  /\ randomness \in 0 .. 255
  /\ \A c \in Channels : density[c + 1] \in 0 .. 255
  /\ call.op \in {"set_x", "set_y", "set_chaos"} => call.arg \in 0 .. 255
  /\ call.op = "set_density" => call.arg[2] \in 0 .. 255

(***************************************************************************)
(* The table lookup by step count and pulse count.                         *)
(***************************************************************************)
\* C23: get_euclidean_pattern(steps, pulses) returns, for every steps in
\* 1 .. 32 and every pulses in 0 .. 32, an entry of the row of that step
\* count, at an index in 8*(steps-1) .. 8*(steps-1)+7; for steps outside
\* 1 .. 32 or pulses outside 0 .. 32 it raises ValueError.
C23_LookupInRowOfSteps ==
  call.op = "get_euclidean_pattern" =>
    LET steps == call.arg[1]
        pulses == call.arg[2]
    IN  IF steps \in 1 .. 32 /\ pulses \in 0 .. 32
          THEN /\ call.ret.raised = "none"
               /\ call.ret.index \in (8 * (steps - 1)) .. ((8 * (steps - 1)) + 7)
          ELSE call.ret.raised = "ValueError"

(***************************************************************************)
(* Density and the triggers.                                               *)
(***************************************************************************)
\* The density vector with channel c set to d.
density_with(c, d) == [density EXCEPT ![c + 1] = d]

\* C24: in grid mode, with x, y, step and part_perturbation fixed, a
\* channel that triggers at density d triggers at density d + 1, hence at
\* every higher density; a channel with density 0 does not trigger; and the
\* trigger bit of the word returned is the trigger at the channel's density.
C24_DensityIsMonotonic ==
  (call.op = "evaluate" /\ call.arg = "evaluate_drums") =>
    \A c \in Channels :
      /\ (Bit(call.ret, c) = 1)
           <=> trigger(x, y, density, step, part_perturbation, c)
      /\ ~ trigger(x, y, density_with(c, 0), step, part_perturbation, c)
      /\ \A d \in 0 .. 254 :
           trigger(x, y, density_with(c, d), step, part_perturbation, c)
             => trigger(x, y, density_with(c, d + 1), step,
                        part_perturbation, c)

\* One evaluation in which a perturbed channel with density 0 stayed silent,
\* a channel with density 128 stayed silent and a channel with density 255
\* fired.
C24_Witness ==
  /\ call.op = "evaluate"
  /\ call.arg = "evaluate_drums"
  /\ density = << 0, 128, 255 >>
  /\ part_perturbation[1] = 99
  /\ call.ret % 8 = 4

(***************************************************************************)
(* The step counter and the cursors.                                       *)
(***************************************************************************)
\* C25: in every reachable state step is in 0 .. 31 and so is every
\* euclidean_step[c]; when either counter changes it goes to its successor
\* modulo 32, so it wraps from 31 to 0.
C25_CountersWithinCycle ==
  /\ [](/\ step \in 0 .. (StepsPerPattern - 1)
        /\ \A c \in Channels :
             euclidean_step[c + 1] \in 0 .. (StepsPerPattern - 1))
  /\ [][ /\ step' # step => step' = (step + 1) % 32
         /\ \A c \in Channels :
              euclidean_step'[c + 1] # euclidean_step[c + 1] =>
                euclidean_step'[c + 1] = (euclidean_step[c + 1] + 1) % 32 ]_vars

\* A tick has just wrapped the pulse and taken the step from 31 to 0, after
\* 32 consecutive Euclidean evaluations took the cursors from 0 through 31
\* and back to 0.
C25_Witness ==
  /\ call.op = "tick_clock"
  /\ pulse = 0
  /\ step = 0
  /\ Len(hist) = 32
  /\ euclidean_step = << 0, 0, 0 >>

(***************************************************************************)
(* The sequencer callback.                                                 *)
(***************************************************************************)
\* C26: a sequencer callback makes one evaluation and then one
\* tick_clock(1), in either mode: the word is the one an evaluation returns
\* in the state the callback found, before the tick (in grid mode at the
\* step and pulse found, in Euclidean mode at the cursors found, which
\* advance once), and the step and pulse afterwards are those of one tick
\* of one pulse.
C26_CallbackEvaluatesThenTicks ==
  [][ call'.op = "sequencer_callback" =>
        /\ call'.arg \in {"evaluate_drums", "evaluate_euclidean", "none"}
        /\ call'.arg = "evaluate_drums" =>
             /\ pulse = 0
             /\ call'.ret = drums_word(x, y, density, step, part_perturbation')
             /\ euclidean_step' = euclidean_step
        /\ call'.arg = "evaluate_euclidean" =>
             /\ call'.ret = euclidean_word(density, euclidean_step)
             /\ \A c \in Channels :
                  euclidean_step'[c + 1] = (euclidean_step[c + 1] + 1) % 32
             /\ part_perturbation' = part_perturbation
        /\ call'.arg = "none" =>
             /\ pulse # 0
             /\ call'.ret = 0
             /\ euclidean_step' = euclidean_step
             /\ part_perturbation' = part_perturbation
        /\ pulse' = tick_pulse(pulse, 1, pulses_per_step)
        /\ step' = tick_step(step, pulse, 1, pulses_per_step) ]_vars

\* A callback at 4 PPQN has returned the word of step 0, with the reset bit,
\* and has left the engine at step 1.
C26_Witness ==
  /\ call.op = "sequencer_callback"
  /\ call.arg = "evaluate_drums"
  /\ pulses_per_step = 1
  /\ step = 1
  /\ Bit(call.ret, OUTPUT_BIT_RESET) = 1

(***************************************************************************)
(* The host's voice setters.                                               *)
(***************************************************************************)
\* What a voice setter leaves in the array `old` when called with `arg`:
\* the value at the channel if both are valid, and the array as it was
\* otherwise.
voice_after(old, arg, valid_value) ==
  IF arg[1] \in 0 .. 2 /\ valid_value
    THEN [c \in 1 .. 3 |-> IF c = arg[1] + 1 THEN arg[2] ELSE old[c]]
    ELSE old

\* C27: set_preset, set_velocity, set_pitch and set_pan called with a
\* channel outside 0 .. 2, or with a preset outside 0 .. len(drumkit) - 1,
\* or with a velocity, pitch or pan outside [0, 1], leave drum_presets,
\* velocities, pitches and pans unchanged; a valid call changes the entry
\* of the channel it names and nothing else.
C27_VoiceSettersValidate ==
  [][ /\ call'.op = "set_preset" =>
           /\ drum_presets' =
                voice_after(drum_presets, call'.arg,
                            call'.arg[2] \in 0 .. (DrumkitLen - 1))
           /\ UNCHANGED << velocities, pitches, pans >>
      /\ call'.op = "set_velocity" =>
           /\ velocities' =
                voice_after(velocities, call'.arg, call'.arg[2] \in 0 .. 10)
           /\ UNCHANGED << drum_presets, pitches, pans >>
      /\ call'.op = "set_pitch" =>
           /\ pitches' =
                voice_after(pitches, call'.arg, call'.arg[2] \in 0 .. 10)
           /\ UNCHANGED << drum_presets, velocities, pans >>
      /\ call'.op = "set_pan" =>
           /\ pans' = voice_after(pans, call'.arg, call'.arg[2] \in 0 .. 10)
           /\ UNCHANGED << drum_presets, velocities, pitches >>
      /\ call'.op \in {"set_preset", "set_velocity", "set_pitch", "set_pan"}
           => UNCHANGED << engine, mode >> ]_vars

\* set_velocity was called with 1.1 on the last channel and was ignored,
\* after valid calls had changed entries of all four arrays.
C27_Witness ==
  /\ call.op = "set_velocity"
  /\ call.arg = << 2, 11 >>
  /\ velocities = << 10, 5, 0 >>
  /\ drum_presets = << 0, 2, 2 >>
  /\ pitches = << 5, 5, 10 >>
  /\ pans = << 0, 5, 5 >>

(***************************************************************************)
(* The host's mode and the engine's.                                       *)
(***************************************************************************)
\* C28: after any sequence of set_mode_grids, set_mode_euclidean and GUI
\* mode switches, TulipGrids.mode equals output_mode, and a sequencer
\* callback that evaluates runs the evaluation of the mode the engine is
\* set to.
C28_HostModeIsEngineMode ==
  /\ mode = output_mode
  /\ call.op = "sequencer_callback" =>
       /\ call.arg = "evaluate_drums" => output_mode = "grids"
       /\ call.arg = "evaluate_euclidean" => output_mode = "euclidean"

(***************************************************************************)
(* start and stop.                                                         *)
(***************************************************************************)
\* C29: after any sequence of start and stop at most one callback is
\* registered, and seq_slot is a slot exactly when one is, namely the slot
\* of that callback; start while running registers nothing, start while
\* stopped registers one callback, stop while stopped removes nothing, and
\* stop while running removes the callback registered.
C29_AtMostOneCallback ==
  /\ [](/\ Cardinality(callbacks) <= 1
        /\ seq_slot # None <=> callbacks # {}
        /\ seq_slot # None => callbacks = {seq_slot})
  /\ [][ /\ call'.op = "start" =>
              IF seq_slot # None
                THEN callbacks' = callbacks /\ seq_slot' = seq_slot
                ELSE Cardinality(callbacks') = 1 /\ seq_slot' \in callbacks'
         /\ call'.op \in {"stop", "__del__"} =>
              /\ callbacks' = {}
              /\ seq_slot' = None
              /\ seq_slot = None => callbacks' = callbacks ]_vars

\* stop has removed the callback that start registered, after the
\* sequencer had called it through steps of the pattern.
C29_Witness ==
  /\ call.op = "stop"
  /\ seq_slot = None
  /\ callbacks = {}
  /\ step = 5
  /\ mode = "euclidean"

(***************************************************************************)
(* The cursors together.                                                   *)
(***************************************************************************)
\* C30: the three Euclidean cursors are equal in every reachable state,
\* whatever the densities, and so whatever the pattern lengths, of the
\* channels.
C30_CursorsInLockstep ==
  /\ euclidean_step[1] = euclidean_step[2]
  /\ euclidean_step[2] = euclidean_step[3]

\* The cursors stand at 17 after 17 evaluations from 0, on channels with
\* the pattern lengths 1, 5 and 8.
C30_Witness ==
  /\ call.op = "evaluate_euclidean"
  /\ euclidean_step = << 17, 17, 17 >>
  /\ density = << 0, 128, 255 >>
  /\ Len(hist) = 17

=============================================================================
